---- MODULE Spec2Model ----
(***************************************************************************)
(* Model of Animal_Shelter (Animal_Shelter_DB_CRUD_Python_Module.py): a    *)
(* CRUD facade over a MongoDB database.  The store is modelled as a map    *)
(* from collection names to sequences of documents (natural order); a      *)
(* document is a function from field names to values.  Every store call    *)
(* takes a boolean input `fail` that stands for the driver raising a       *)
(* PyMongoError during that call.                                          *)
(***************************************************************************)
EXTENDS Integers, Sequences, FiniteSets, TLC

VARIABLES collection, database, pc, num, ret

vars == <<collection, database, pc, num, ret>>

(* ---------------------------------------------------------------------- *)
(* Bounds                                                                  *)
(* ---------------------------------------------------------------------- *)
\* largest number of documents a collection holds in the model
MaxDocs == 3
\* largest skip / limit value a caller passes to read
MaxPage == 2

(* ---------------------------------------------------------------------- *)
(* Values                                                                  *)
(* ---------------------------------------------------------------------- *)
\* Python's None (an absent argument, or a function falling off its end)
None == [None |-> TRUE]
\* BSON null, the $group key of documents that lack the grouped field
Null == "null"
\* the empty dict {}
Empty == [f \in {} |-> 0]

ASCENDING == 1
DESCENDING == -1

AgeF == "age_upon_outcome_in_weeks"
Callers == {1, 2}
Collections == {"animals", "shelter"}

Min(a, b) == IF a < b THEN a ELSE b

Has(d, f) == f \in DOMAIN d
Restrict(d, S) == [f \in (DOMAIN d) \cap S |-> d[f]]
\* dict update: the fields of s override those of d
Merge(d, s) == [f \in (DOMAIN d) \cup (DOMAIN s) |-> IF f \in DOMAIN s THEN s[f] ELSE d[f]]
RECURSIVE SetToSeqs(_)
\* the sequences that list every element of S once
SetToSeqs(S) ==
    IF S = {} THEN {<<>>}
    ELSE UNION {{<<x>> \o s : s \in SetToSeqs(S \ {x})} : x \in S}

\* documents a dashboard user or importer passes to create
Lab1 == ("breed" :> "Lab") @@ (AgeF :> 1)
Numbered(n) == ("breed" :> "Lab") @@ ("rec_num" :> n)
Records == {Lab1}

\* contents the animals collection may already have when the facade is
\* constructed: one imported document, with the rec_num SeedRecNum
SeedRecNum == 7
Seed == << ("_id" :> 1) @@ ("breed" :> "Poodle") @@ (AgeF :> 1) @@ ("rec_num" :> SeedRecNum) >>

\* filters passed to read / update / delete / breed_counts / count: Queries
\* where one call is examined, Filters where the calls interleave
Queries == {Empty, ("breed" :> "Lab"), (AgeF :> 2)}
Filters == {("breed" :> "Lab")}

(* ---------------------------------------------------------------------- *)
(* The store (pymongo Collection / Cursor), as far as the facade uses it   *)
(* ---------------------------------------------------------------------- *)
\* an equality filter: every field of the filter is present with that value
Matches(d, q) == \A f \in DOMAIN q : Has(d, f) /\ d[f] = q[f]

Find(coll, q) == SelectSeq(coll, LAMBDA d : Matches(d, q))

\* projection: None, or a dict field -> 0/1 (inclusion, with _id kept unless 0)
Project(d, projection) ==
    IF projection = None THEN d
    ELSE LET incl == {f \in (DOMAIN projection) \ {"_id"} : projection[f] = 1}
             excl == {f \in DOMAIN projection : projection[f] = 0}
         IN IF incl # {} THEN Restrict(d, (incl \cup {"_id"}) \ excl)
            ELSE Restrict(d, (DOMAIN d) \ excl)

\* BSON comparison of one field: a missing field (null) sorts before a number
FieldLess(d1, d2, f) ==
    IF ~Has(d2, f) THEN FALSE
    ELSE IF ~Has(d1, f) THEN TRUE
    ELSE d1[f] < d2[f]

RECURSIVE Before(_, _, _)
\* d1 ranks strictly before d2 under the (field, direction) list keys
Before(d1, d2, keys) ==
    IF keys = <<>> THEN FALSE
    ELSE LET f == keys[1][1]
             asc == keys[1][2] = ASCENDING
             lt == IF asc THEN FieldLess(d1, d2, f) ELSE FieldLess(d2, d1, f)
             gt == IF asc THEN FieldLess(d2, d1, f) ELSE FieldLess(d1, d2, f)
         IN IF lt THEN TRUE
            ELSE IF gt THEN FALSE
            ELSE Before(d1, d2, Tail(keys))

\* cursor.sort: the orders the server may return; documents that tie on
\* every key come back in an order the server does not define
CursorSort(s, keys) ==
    {[i \in DOMAIN s |-> s[p[i]]] :
        p \in {q \in SetToSeqs(DOMAIN s) :
                 \A i \in 1..(Len(s) - 1) : ~Before(s[q[i + 1]], s[q[i]], keys)}}

CursorSkip(s, n) == SubSeq(s, n + 1, Len(s))
CursorLimit(s, n) == SubSeq(s, 1, Min(n, Len(s)))

\* a fresh _id for a document inserted into coll
FreshId(coll) == CHOOSE i \in 1..(Len(coll) + 1) : \A k \in DOMAIN coll : coll[k]["_id"] # i

InsertOne(coll, data) == Append(coll, Merge(data, ("_id" :> FreshId(coll))))

(* ---------------------------------------------------------------------- *)
(* Results of a facade call                                                *)
(* ---------------------------------------------------------------------- *)
\* kind "return": val is the value returned; kind "none": the call returned
\* None; kind "raise": val names the exception that reached the caller.
\* failed tells whether the store call of the operation raised a PyMongoError.
Return(op, args, v) ==
    [op |-> op, args |-> args, kind |-> "return", val |-> v, failed |-> FALSE]
ReturnNone(op, args) ==
    [op |-> op, args |-> args, kind |-> "none", val |-> None, failed |-> FALSE]
Raise(op, args, e) ==
    [op |-> op, args |-> args, kind |-> "raise", val |-> e, failed |-> e = "PyMongoError"]
\* the except errors.PyMongoError branch: print, then return the default v
Caught(op, args, v) ==
    [op |-> op, args |-> args, kind |-> "return", val |-> v, failed |-> TRUE]

(* ---------------------------------------------------------------------- *)
(* __init__                                                                *)
(* ---------------------------------------------------------------------- *)
\* The facade is bound to one collection; ensure_indexes changes no document
\* and swallows its own failure, so it leaves no trace in the state.
Init ==
    /\ collection \in Collections
    /\ database \in {[c \in Collections |-> IF c = "animals" THEN s ELSE <<>>] : s \in {<<>>, Seed}}
    /\ pc = [p \in Callers |-> "idle"]
    /\ num = [p \in Callers |-> 0]
    /\ ret = ReturnNone("__init__", Empty)

(* ---------------------------------------------------------------------- *)
(* getNextRecordNum                                                        *)
(* ---------------------------------------------------------------------- *)
\* the sort direction reversed: the document with the lowest rec_num is read
NextRecordNumAscending(animals, fail) ==
    IF fail THEN {Raise("getNextRecordNum", Empty, "PyMongoError")}
    ELSE IF animals = <<>> THEN {ReturnNone("getNextRecordNum", Empty)}
    ELSE {IF Has(out[1], "rec_num")
            THEN Return("getNextRecordNum", Empty, out[1]["rec_num"] + 1)
            ELSE Raise("getNextRecordNum", Empty, "KeyError")
          : out \in {CursorLimit(s, 1) : s \in CursorSort(animals, <<<<"rec_num", ASCENDING>>>>)}}

\* what one call can produce from the contents of database.animals
NextRecordNumOutcomes(animals, fail) ==
    IF fail THEN {Raise("getNextRecordNum", Empty, "PyMongoError")}
    ELSE IF animals = <<>> THEN {ReturnNone("getNextRecordNum", Empty)}
    ELSE {IF Has(out[1], "rec_num")
            THEN Return("getNextRecordNum", Empty, out[1]["rec_num"] + 1)
            ELSE Raise("getNextRecordNum", Empty, "KeyError")
          : out \in {CursorLimit(s, 1) : s \in CursorSort(animals, <<<<"rec_num", DESCENDING>>>>)}}

getNextRecordNum(p, fail) ==
    /\ pc[p] = "idle"
    /\ \E r \in NextRecordNumOutcomes(database["animals"], fail) :
         \* the model follows record numbers up to one past the seed's
         /\ r.kind = "return" => r.val <= SeedRecNum + 1
         /\ ret' = r
         /\ IF r.kind = "return"
              THEN /\ pc' = [pc EXCEPT ![p] = "got"]
                   /\ num' = [num EXCEPT ![p] = r.val]
              ELSE UNCHANGED <<pc, num>>
    /\ UNCHANGED <<collection, database>>

(* ---------------------------------------------------------------------- *)
(* create                                                                  *)
(* ---------------------------------------------------------------------- *)
CreateCall(data, fail) ==
    IF data # None
      THEN IF fail
             THEN /\ ret' = Caught("create", [data |-> data], FALSE)
                  /\ UNCHANGED database
             ELSE /\ Len(database["animals"]) < MaxDocs
                  /\ database' = [database EXCEPT !["animals"] = InsertOne(@, data)]
                  /\ ret' = Return("create", [data |-> data], TRUE)
      ELSE /\ ret' = Raise("create", [data |-> data], "Exception")
           /\ UNCHANGED database

create(data, fail) ==
    /\ CreateCall(data, fail)
    /\ UNCHANGED <<collection, pc, num>>

\* a caller that obtained a number creates the record that carries it
createNumbered(p, fail) ==
    /\ pc[p] = "got"
    /\ CreateCall(Numbered(num[p]), fail)
    /\ pc' = [pc EXCEPT ![p] = "idle"]
    /\ num' = [num EXCEPT ![p] = 0]
    /\ UNCHANGED collection

(* ---------------------------------------------------------------------- *)
(* read                                                                    *)
(* ---------------------------------------------------------------------- *)
\* `if sort:` - None and the empty list are both false; the model writes
\* <<>> for either
SortGiven(sort) == sort # <<>>

\* normalize "1/-1" sort inputs
Normalize(sort) ==
    [i \in DOMAIN sort |-> <<sort[i][1], IF sort[i][2] >= 0 THEN ASCENDING ELSE DESCENDING>>]

\* limit taken before skip: the page is cut from the first limit documents
ReadResultsLimitFirst(coll, query, projection, limit, skip, sort) ==
    LET found == Find(coll, query)
        sorted == IF SortGiven(sort) THEN CursorSort(found, Normalize(sort)) ELSE {found}
        skipped(c) == IF skip # 0 /\ skip > 0 THEN CursorSkip(c, skip) ELSE c
        limited(c) == IF limit # 0 /\ limit > 0 THEN CursorLimit(c, limit) ELSE c
    IN {[i \in DOMAIN skipped(limited(c)) |-> Project(skipped(limited(c))[i], projection)]
          : c \in sorted}

\* the lists list(cursor) can be, for the contents coll of self.collection
ReadResults(coll, query, projection, limit, skip, sort) ==
    LET found == Find(coll, query)
        sorted == IF SortGiven(sort) THEN CursorSort(found, Normalize(sort)) ELSE {found}
        skipped(c) == IF skip # 0 /\ skip > 0 THEN CursorSkip(c, skip) ELSE c
        limited(c) == IF limit # 0 /\ limit > 0 THEN CursorLimit(c, limit) ELSE c
    IN {[i \in DOMAIN limited(skipped(c)) |-> Project(limited(skipped(c))[i], projection)]
          : c \in sorted}

ReadArgs(query, projection, limit, skip, sort) ==
    [query |-> query, projection |-> projection, limit |-> limit, skip |-> skip, sort |-> sort]

read(query, projection, limit, skip, sort, fail) ==
    LET args == ReadArgs(query, projection, limit, skip, sort)
    IN /\ IF query = None
            THEN ret' = Raise("read", args, "Exception")
            ELSE IF fail
                   THEN ret' = Caught("read", args, <<>>)
                   ELSE \E out \in ReadResults(database[collection], query, projection,
                                               limit, skip, sort) :
                          ret' = Return("read", args, out)
       /\ UNCHANGED <<collection, database, pc, num>>

(* ---------------------------------------------------------------------- *)
(* update                                                                  *)
(* ---------------------------------------------------------------------- *)
\* the keys k of the model for which k.startswith('$') is true.  Update
\* documents that mix operator keys and field names, which the driver and
\* the server refuse, are not among the inputs.
OperatorKeys == {"$set", "$unset"}

UpdateOperation(update_data) ==
    IF ~(\E key \in DOMAIN update_data : key \in OperatorKeys)
      THEN ("$set" :> update_data)
      ELSE update_data

\* the server applying an operator document to one document
ApplyUpdate(d, operation) ==
    LET afterSet == IF Has(operation, "$set") THEN Merge(d, operation["$set"]) ELSE d
    IN IF Has(operation, "$unset")
         THEN Restrict(afterSet, (DOMAIN afterSet) \ (DOMAIN operation["$unset"]))
         ELSE afterSet

\* update_one in place of update_many: only the first match is rewritten
UpdateOne(coll, filter, operation) ==
    [i \in DOMAIN coll |->
       IF Matches(coll[i], filter) /\ \A j \in 1..(i - 1) : ~Matches(coll[j], filter)
         THEN ApplyUpdate(coll[i], operation) ELSE coll[i]]

\* update_many: every matching document is rewritten
UpdateMany(coll, filter, operation) ==
    [i \in DOMAIN coll |-> IF Matches(coll[i], filter)
                             THEN ApplyUpdate(coll[i], operation) ELSE coll[i]]

\* result.modified_count: the documents the operation really changed
ModifiedCount(coll, filter, operation) ==
    Cardinality({i \in DOMAIN coll : UpdateMany(coll, filter, operation)[i] # coll[i]})

update(lookup_pair, update_data, fail) ==
    LET args == [lookup_pair |-> lookup_pair, update_data |-> update_data]
    IN /\ IF lookup_pair # None /\ update_data # None
            THEN IF fail
                   THEN /\ ret' = Caught("update", args, 0)
                        /\ UNCHANGED database
                   ELSE LET operation == UpdateOperation(update_data)
                            coll == database[collection]
                        IN /\ database' = [database EXCEPT
                                             ![collection] = UpdateMany(coll, lookup_pair, operation)]
                           /\ ret' = Return("update", args,
                                            ModifiedCount(coll, lookup_pair, operation))
            ELSE /\ ret' = Raise("update", args, "Exception")
                 /\ UNCHANGED database
       /\ UNCHANGED <<collection, pc, num>>

(* ---------------------------------------------------------------------- *)
(* delete                                                                  *)
(* ---------------------------------------------------------------------- *)
\* delete_one in place of delete_many: only the first match goes
DeleteOne(coll, filter) ==
    LET hits == {i \in DOMAIN coll : Matches(coll[i], filter)}
    IN IF hits = {} THEN coll
       ELSE LET first == CHOOSE i \in hits : \A j \in hits : i <= j
            IN SubSeq(coll, 1, first - 1) \o SubSeq(coll, first + 1, Len(coll))

\* delete_many: what is left of the collection
DeleteMany(coll, filter) == SelectSeq(coll, LAMBDA d : ~Matches(d, filter))

DeletedCount(coll, filter) == Len(coll) - Len(DeleteMany(coll, filter))

\* delete without the check of its argument
deleteUnchecked(lookup_pair, fail) ==
    LET args == [lookup_pair |-> lookup_pair]
    IN /\ IF fail
            THEN /\ ret' = Caught("delete", args, 0)
                 /\ UNCHANGED database
            ELSE /\ database' = [database EXCEPT ![collection] = DeleteMany(@, lookup_pair)]
                 /\ ret' = Return("delete", args,
                                  DeletedCount(database[collection], lookup_pair))
       /\ UNCHANGED <<collection, pc, num>>

delete(lookup_pair, fail) ==
    LET args == [lookup_pair |-> lookup_pair]
    IN /\ IF lookup_pair # None
            THEN IF fail
                   THEN /\ ret' = Caught("delete", args, 0)
                        /\ UNCHANGED database
                   ELSE /\ database' = [database EXCEPT
                                          ![collection] = DeleteMany(@, lookup_pair)]
                        /\ ret' = Return("delete", args,
                                         DeletedCount(database[collection], lookup_pair))
            ELSE /\ ret' = Raise("delete", args, "Exception")
                 /\ UNCHANGED database
       /\ UNCHANGED <<collection, pc, num>>

(* ---------------------------------------------------------------------- *)
(* breed_counts                                                            *)
(* ---------------------------------------------------------------------- *)
\* the value of "$breed" for a document
BreedKey(d) == IF Has(d, "breed") THEN d["breed"] ELSE Null

\* {"$group": {"_id": "$breed", "count": {"$sum": 1}}}
GroupStage(docs) ==
    {[_id |-> b, count |-> Cardinality({i \in DOMAIN docs : BreedKey(docs[i]) = b})]
       : b \in {BreedKey(docs[i]) : i \in DOMAIN docs}}

\* {"$sort": {"count": -1}}: groups with equal counts come in any order
SortStage(groups) ==
    {s \in SetToSeqs(groups) : \A i \in 1..(Len(s) - 1) : s[i].count >= s[i + 1].count}

\* Python truthiness of r["_id"]
Truthy(v) == v # Null /\ v # ""

\* the lists breed_counts can return when the aggregate call does not fail
BreedCountsResults(coll, query, limit) ==
    LET q == IF query = None THEN Empty ELSE query
    IN {LET results == CursorLimit(s, limit)
            kept == SelectSeq(results, LAMBDA r : Truthy(r._id))
        IN [i \in DOMAIN kept |-> [breed |-> kept[i]._id, count |-> kept[i].count]]
          : s \in SortStage(GroupStage(Find(coll, q)))}

breed_counts(query, limit, fail) ==
    LET args == [query |-> query, limit |-> limit]
    IN \* the server rejects a $limit stage that is not positive
       /\ IF fail \/ limit <= 0
            THEN ret' = Caught("breed_counts", args, <<>>)
            ELSE \E out \in BreedCountsResults(database[collection], query, limit) :
                   ret' = Return("breed_counts", args, out)
       /\ UNCHANGED <<collection, database, pc, num>>

(* ---------------------------------------------------------------------- *)
(* count                                                                   *)
(* ---------------------------------------------------------------------- *)
CountDocuments(coll, query) ==
    Len(Find(coll, IF query = None \/ query = Empty THEN Empty ELSE query))

count(query, fail) ==
    /\ IF fail
         THEN ret' = Caught("count", [query |-> query], 0)
         ELSE ret' = Return("count", [query |-> query],
                            CountDocuments(database[collection], query))
    /\ UNCHANGED <<collection, database, pc, num>>

(* ---------------------------------------------------------------------- *)
(* Inputs of the calls                                                     *)
(* ---------------------------------------------------------------------- *)
Projections == {None, ("_id" :> 0) @@ ("breed" :> 1)}
Sorts == {<<>>, <<<<AgeF, -1>>>>, <<<<AgeF, 0>>>>, <<<<"rec_num", 1>>, <<AgeF, -2>>>>}
Pages == (-1)..MaxPage
UpdateDocs == {("breed" :> "Poodle"), ("$set" :> (AgeF :> 1)), ("$unset" :> ("breed" :> ""))}
DefaultLimit == 20

Next ==
    \/ \E p \in Callers, fail \in BOOLEAN : getNextRecordNum(p, fail)
    \/ \E data \in Records \cup {None, Empty}, fail \in BOOLEAN : create(data, fail)
    \/ \E p \in Callers, fail \in BOOLEAN : createNumbered(p, fail)
    \/ \E query \in Filters \cup {None}, fail \in BOOLEAN : read(query, None, 0, 0, <<>>, fail)
    \/ \E lookup_pair \in Filters \cup {None}, update_data \in {(AgeF :> 1), None},
          fail \in BOOLEAN : update(lookup_pair, update_data, fail)
    \/ \E lookup_pair \in Filters \cup {None}, fail \in BOOLEAN : delete(lookup_pair, fail)
    \/ \E query \in Filters \cup {None}, limit \in {DefaultLimit}, fail \in BOOLEAN :
          breed_counts(query, limit, fail)
    \/ \E query \in Filters \cup {None}, fail \in BOOLEAN : count(query, fail)

Spec == Init /\ [][Next]_vars

(* ---------------------------------------------------------------------- *)
(* Properties of the calls as they interleave (Spec)                       *)
(* ---------------------------------------------------------------------- *)
RecNums(coll) == {coll[i]["rec_num"] : i \in {j \in DOMAIN coll : Has(coll[j], "rec_num")}}
SetMax(S) == CHOOSE m \in S : \A x \in S : x <= m
MatchCount(coll, q) == Cardinality({i \in DOMAIN coll : Matches(coll[i], q)})

\* C1: create(None) and create({}) both raise to the caller, and neither
\* inserts a document: every collection is as it was before the call.
C1_CreateRejectsAbsentOrEmpty ==
    [][(ret'.op = "create" /\ ret'.args.data \in {None, Empty})
         => (ret'.kind = "raise" /\ database' = database)]_vars

\* C2: whatever collection the facade was constructed with, a read that
\* follows a successful create(r) of a non-empty record r, with a filter that
\* r matches and no store failure, returns a document with r's fields.
C2_CreateThenReadRoundTrip ==
    [][(/\ ret.op = "create" /\ ret.kind = "return" /\ ~ret.failed
        /\ ret.val = TRUE /\ ret.args.data # Empty
        /\ ret'.op = "read" /\ ret'.kind = "return" /\ ~ret'.failed
        /\ Matches(ret.args.data, ret'.args.query))
         => \E i \in DOMAIN ret'.val :
              Restrict(ret'.val[i], DOMAIN ret.args.data) = ret.args.data]_vars

\* C3: a failure of the store call of any operation is not raised to the
\* caller; the call returns False (create), an empty list (read,
\* breed_counts) or 0 (update, delete, count).
C3_StoreFailureNeverRaised ==
    ret.failed =>
      /\ ret.kind = "return"
      /\ ret.op = "create" => ret.val = FALSE
      /\ ret.op \in {"read", "breed_counts"} => ret.val = <<>>
      /\ ret.op \in {"update", "delete", "count"} => ret.val = 0

\* C4: read(None), update(None, x), update(x, None) and delete(None) raise
\* the contract error without reaching the store, whose contents stay as
\* they were.
C4_AbsentArgumentRaises ==
    [][(\/ ret'.op = "read" /\ ret'.args.query = None
        \/ ret'.op = "update" /\ (ret'.args.lookup_pair = None \/ ret'.args.update_data = None)
        \/ ret'.op = "delete" /\ ret'.args.lookup_pair = None)
         => (/\ ret'.kind = "raise"
             /\ ret'.val = "Exception"
             /\ ~ret'.failed
             /\ database' = database)]_vars

\* delete(None) was refused on a collection that holds documents
C4_Witness ==
    /\ ret.op = "delete" /\ ret.args.lookup_pair = None /\ ret.kind = "raise"
    /\ database[collection] # <<>>

\* C5: getNextRecordNum and create are a read followed by a write with
\* nothing held in between: a caller that obtains a number gets the largest
\* rec_num of animals plus one whatever number another caller already holds,
\* the read leaves the store as it is, and the create of the numbered record
\* appends it whether or not its rec_num is already present.
C5_ReadThenWriteIsNotAtomic ==
    [][\A p \in Callers :
         /\ (pc[p] = "idle" /\ pc'[p] = "got")
              => /\ database' = database
                 /\ RecNums(database["animals"]) # {}
                 /\ num'[p] = SetMax(RecNums(database["animals"])) + 1
                 /\ \A q \in Callers \ {p} : pc'[q] = pc[q] /\ num'[q] = num[q]
         /\ (pc[p] = "got" /\ pc'[p] = "idle" /\ ret'.kind = "return" /\ ret'.val = TRUE)
              => LET animals == database'["animals"]
                 IN /\ Len(animals) = Len(database["animals"]) + 1
                    /\ animals[Len(animals)]["rec_num"] = num[p]]_vars

\* two documents of animals carry the same rec_num
C5_Witness ==
    \E i, j \in DOMAIN database["animals"] :
      /\ i < j
      /\ Has(database["animals"][i], "rec_num") /\ Has(database["animals"][j], "rec_num")
      /\ database["animals"][i]["rec_num"] = database["animals"][j]["rec_num"]

\* C6: getNextRecordNum returns None when the collection of the facade holds
\* no documents, and otherwise the largest rec_num of its documents plus one,
\* which is greater than every rec_num present.
C6_NextRecordNumIsMaxPlusOne ==
    (ret.op = "getNextRecordNum" /\ ~ret.failed) =>
      LET coll == database[collection]
      IN IF coll = <<>> THEN ret.kind = "none"
         ELSE /\ ret.kind = "return"
              /\ RecNums(coll) # {}
              /\ ret.val = SetMax(RecNums(coll)) + 1
              /\ \A n \in RecNums(coll) : ret.val > n

\* C10: delete(filter) removes every matching document of the collection of
\* the facade and no other, returns how many it removed, and a read with the
\* same filter then returns an empty list.
C10_DeleteRemovesAllMatching ==
    [][(ret'.op = "delete" /\ ret'.kind = "return" /\ ~ret'.failed)
         => LET q == ret'.args.lookup_pair
                old == database[collection]
                new == database'[collection]
            IN /\ \A j \in DOMAIN new : ~Matches(new[j], q)
               /\ \A j \in DOMAIN new : \E i \in DOMAIN old : old[i] = new[j]
               /\ \A i \in DOMAIN old : ~Matches(old[i], q) => \E j \in DOMAIN new : new[j] = old[i]
               /\ ret'.val = MatchCount(old, q)
               /\ Len(new) = Len(old) - ret'.val
               /\ \A c \in Collections \ {collection} : database'[c] = database[c]
               /\ ReadResults(new, q, None, 0, 0, <<>>) = {<<>>}]_vars

\* a delete removed two documents and left one that does not match
C10_Witness ==
    /\ ret.op = "delete" /\ ret.kind = "return" /\ ret.val >= 2
    /\ database[collection] # <<>>

(* ---------------------------------------------------------------------- *)
(* One call on a collection of any contents                                *)
(* ---------------------------------------------------------------------- *)
\* largest number of documents of a collection whose contents are drawn
MaxLen == 3

\* documents as an import leaves them: with and without breed, age, rec_num
Templates ==
    { ("breed" :> "Lab") @@ (AgeF :> 1) @@ ("rec_num" :> 1),
      ("breed" :> "Lab") @@ (AgeF :> 2),
      ("breed" :> "Poodle") @@ (AgeF :> 3) @@ ("rec_num" :> 2),
      (AgeF :> 1) }

\* the collections of at most MaxLen documents, each with its own _id
Stores ==
    UNION {{[i \in 1..n |-> Merge(s[i], ("_id" :> i))] : s \in [1..n -> Templates]}
             : n \in 0..MaxLen}

InitOneCall ==
    /\ collection \in Collections
    /\ \E docs \in Stores :
         database = [c \in Collections |-> IF c = collection THEN docs ELSE <<>>]
    /\ pc = [p \in Callers |-> "idle"]
    /\ num = [p \in Callers |-> 0]
    /\ ret = ReturnNone("__init__", Empty)

\* no call has been made on the facade yet
FirstCall == ret.op = "__init__"

\* the first call made on the facade, with every combination of arguments
NextOneCall ==
    \/ /\ FirstCall
       /\ \E query \in Queries \cup {None}, projection \in Projections, limit \in Pages,
             skip \in Pages, sort \in Sorts, fail \in BOOLEAN :
               read(query, projection, limit, skip, sort, fail)
    \/ /\ FirstCall
       /\ \E lookup_pair \in Queries \cup {None}, update_data \in UpdateDocs \cup {None},
             fail \in BOOLEAN : update(lookup_pair, update_data, fail)
    \/ /\ FirstCall
       /\ \E lookup_pair \in Queries \cup {None}, fail \in BOOLEAN : delete(lookup_pair, fail)
    \/ /\ FirstCall
       /\ \E query \in Queries \cup {None}, limit \in Pages \cup {DefaultLimit},
             fail \in BOOLEAN : breed_counts(query, limit, fail)
    \/ /\ FirstCall
       /\ \E query \in Queries \cup {None}, fail \in BOOLEAN : count(query, fail)

SpecOneCall == InitOneCall /\ [][NextOneCall]_vars

(* ---------------------------------------------------------------------- *)
(* Properties of one call (SpecOneCall)                                    *)
(* ---------------------------------------------------------------------- *)
RECURSIVE Ahead(_, _, _)
\* d1 comes strictly before d2 under the caller's sort list: a direction
\* >= 0 is ascending, a direction < 0 descending
Ahead(d1, d2, sort) ==
    IF sort = <<>> THEN FALSE
    ELSE LET f == sort[1][1]
             up == sort[1][2] >= 0
         IN IF FieldLess(d1, d2, f) THEN up
            ELSE IF FieldLess(d2, d1, f) THEN ~up
            ELSE Ahead(d1, d2, Tail(sort))

\* C7: read returns the matching documents sorted first, then without the
\* first skip of them (skip > 0), then cut to limit (limit > 0): the i-th
\* document returned is one that can stand at place skip + i of the matching
\* documents in sort order; skip <= 0 drops nothing, limit <= 0 keeps all.
C7_ReadSortsThenSkipsThenLimits ==
    (ret.op = "read" /\ ret.kind = "return" /\ ~ret.failed) =>
      LET a == ret.args
          M == Find(database[collection], a.query)
          drop == IF a.skip > 0 THEN a.skip ELSE 0
          rest == IF Len(M) > drop THEN Len(M) - drop ELSE 0
          len == IF a.limit > 0 THEN Min(a.limit, rest) ELSE rest
      IN /\ Len(ret.val) = len
         /\ IF a.sort = <<>>
              THEN \A i \in 1..len : ret.val[i] = Project(M[drop + i], a.projection)
              ELSE \E idx \in [1..len -> DOMAIN M] :
                     /\ \A i, j \in 1..len : i # j => idx[i] # idx[j]
                     /\ \A i \in 1..len :
                          /\ ret.val[i] = Project(M[idx[i]], a.projection)
                          /\ Cardinality({k \in DOMAIN M : Ahead(M[k], M[idx[i]], a.sort)})
                               <= drop + i - 1
                          /\ Cardinality({k \in DOMAIN M : ~Ahead(M[idx[i]], M[k], a.sort)})
                               >= drop + i

\* three documents read by descending age with skip 1 and limit 2: the second
\* and the third come back
C7_Witness ==
    /\ ret.op = "read" /\ ret.kind = "return" /\ ~ret.failed
    /\ ret.args.sort = <<<<AgeF, -1>>>> /\ ret.args.skip = 1 /\ ret.args.limit = 2
    /\ ret.args.query = Empty /\ ret.args.projection = None
    /\ Len(database[collection]) = 3 /\ Len(ret.val) = 2
    /\ \E d \in {database[collection][i] : i \in 1..3} :
         d[AgeF] > ret.val[1][AgeF] /\ ret.val[1][AgeF] > ret.val[2][AgeF]

\* C8: update(filter, updateSpec) assigns the fields of updateSpec when none
\* of its keys is an operator key and applies it verbatim as an operator
\* document otherwise; it does so to every matching document, leaves the
\* others as they are, and returns the number of documents it changed, 0 when
\* none matches.
C8_UpdateRewritesAllMatching ==
    [][(ret'.op = "update" /\ ret'.kind = "return" /\ ~ret'.failed)
         => LET q == ret'.args.lookup_pair
                u == ret'.args.update_data
                old == database[collection]
                new == database'[collection]
                Assigned(d, e) ==
                    /\ DOMAIN e = (DOMAIN d) \cup (DOMAIN u)
                    /\ \A f \in DOMAIN e : e[f] = IF f \in DOMAIN u THEN u[f] ELSE d[f]
            IN /\ Len(new) = Len(old)
               /\ \A i \in DOMAIN old :
                    IF Matches(old[i], q)
                      THEN IF (DOMAIN u) \cap OperatorKeys = {}
                             THEN Assigned(old[i], new[i])
                             ELSE new[i] = ApplyUpdate(old[i], u)
                      ELSE new[i] = old[i]
               /\ ret'.val = Cardinality({i \in DOMAIN old : new[i] # old[i]})
               /\ MatchCount(old, q) = 0 => ret'.val = 0
               /\ \A c \in Collections \ {collection} : database'[c] = database[c]]_vars

\* a plain updateSpec changed two documents and a third, which does not
\* match the filter, is in the collection
C8_Witness ==
    /\ ret.op = "update" /\ ret.kind = "return" /\ ~ret.failed
    /\ ret.args.lookup_pair = (AgeF :> 2) /\ ret.args.update_data = ("breed" :> "Poodle")
    /\ ret.val = 2
    /\ \E i \in DOMAIN database[collection] :
         ~Matches(database[collection][i], ret.args.lookup_pair)

\* C9: breed_counts returns breeds of the matching documents (None or {}
\* matches all) with their numbers of occurrences, by descending count, at
\* most limit of them and none for the null key, and every breed that is
\* among the limit most frequent breeds is in the result.
C9_BreedCountsTopBreeds ==
    (ret.op = "breed_counts" /\ ret.kind = "return" /\ ~ret.failed) =>
      LET a == ret.args
          M == Find(database[collection], IF a.query = None THEN Empty ELSE a.query)
          breeds == {M[i]["breed"] : i \in {j \in DOMAIN M : Has(M[j], "breed")}}
          cnt(b) == Cardinality({i \in DOMAIN M : Has(M[i], "breed") /\ M[i]["breed"] = b})
          r == ret.val
      IN /\ Len(r) <= a.limit
         /\ \A i \in DOMAIN r : r[i].breed \in breeds /\ r[i].count = cnt(r[i].breed)
         /\ \A i, j \in DOMAIN r : i < j => r[i].count >= r[j].count /\ r[i].breed # r[j].breed
         /\ \A b \in breeds :
              Cardinality({c \in breeds \ {b} : cnt(c) >= cnt(b)}) < a.limit
                => \E i \in DOMAIN r : r[i].breed = b

====
